---- MODULE Spec2Model ----
(***************************************************************************)
(* SafeSite: three Lambda handlers coupled through S3 and DynamoDB.        *)
(*   Inference Caller  (SafeSite-Inference-Caller.py)                      *)
(*   Outlier Detector  (SafeSite-outlier-detector.py)                      *)
(*   Outlier Fetcher   (SafeSite-fetch-outlier.py)                         *)
(* Python strings that the code inspects character by character (file     *)
(* names, object keys, labels, query parameters) are sequences of          *)
(* one-character strings.  A Python value that may be None or absent is a  *)
(* tuple of length 0 (None) or 1 (the value).                              *)
(***************************************************************************)
EXTENDS Integers, Sequences, FiniteSets, TLC

None == <<>>
Some(v) == <<v>>

VARIABLES
    \* frame-number extraction on its own
    fx_name,          \* the file name under extraction
    fx_caller,        \* None, or Some(result of the Caller's extraction)
    fx_detector,      \* None, or Some(result of the Detector's extraction)
    \* the object store: <<bucket, key>> -> object
    s3,
    \* Inference Caller, one invocation
    c_env,            \* whether SAGEMAKER_ENDPOINT_NAME and OUTPUT_BUCKET are set
    c_records,        \* event['Records']
    c_pc,             \* "start", "loop", "returned", "raised"
    c_i,              \* index of the record the loop handles next
    failed_messages,
    processed_count,
    c_result,         \* None, or Some(the handler's return value)
    c_puts,           \* the put_object calls made, in order
    c_stage,          \* per handled record: the stage that raised, or "none"
    c_seen,           \* per handled record: what the external calls did, if processed
    \* Outlier Detector, one invocation
    d_topic,          \* whether SNS_TOPIC_ARN is set
    d_now,            \* int(datetime.utcnow().timestamp()), one second for the invocation
    d_records,        \* event['Records']
    d_pc,             \* "idle", "loop", "returned"
    d_i,              \* index of the record the loop handles next
    d_processed_count,
    outlier_count,
    error_count,
    d_result,         \* None, or Some(the handler's return value)
    table,            \* the DynamoDB table: its items, in scan order
    d_calls,          \* the put_item and publish calls made, in order
    d_outcome,        \* per handled record: how its pass through the loop ended
    d_reads,          \* the records for which get_object was called, in order
    \* Outlier Fetcher, one request
    f_event,          \* the request
    f_pc,             \* "idle", "ready", "returned"
    f_response,       \* None, or Some(the handler's return value)
    f_calls           \* the scan and generate_presigned_url calls made, in order

fxVars == <<fx_name, fx_caller, fx_detector>>
callerVars ==
    <<c_env, c_records, c_pc, c_i, failed_messages, processed_count, c_result,
      c_puts, c_stage, c_seen>>
detectorVars ==
    <<d_topic, d_now, d_records, d_pc, d_i, d_processed_count, outlier_count,
      error_count, d_result, table, d_calls, d_outcome, d_reads>>

\* what the actions of one handler leave alone
fetcherVars == <<f_event, f_pc, f_response, f_calls>>
fxRest == <<s3, callerVars, detectorVars, fetcherVars>>
callerRest == <<fxVars, detectorVars, fetcherVars>>
detectorRest == <<fxVars, callerVars, fetcherVars>>
fetcherRest == <<fxVars, s3, callerVars, detectorVars>>

(***************************************************************************)
(* Strings                                                                 *)
(***************************************************************************)
DigitVal ==
    "0" :> 0 @@ "1" :> 1 @@ "2" :> 2 @@ "3" :> 3 @@ "4" :> 4 @@
    "5" :> 5 @@ "6" :> 6 @@ "7" :> 7 @@ "8" :> 8 @@ "9" :> 9

IsDigit(c) == c \in DOMAIN DigitVal

UpperChars ==
    <<"A","B","C","D","E","F","G","H","I","J","K","L","M",
      "N","O","P","Q","R","S","T","U","V","W","X","Y","Z">>

LowerChars ==
    <<"a","b","c","d","e","f","g","h","i","j","k","l","m",
      "n","o","p","q","r","s","t","u","v","w","x","y","z">>

LowerOf ==
    [c \in {UpperChars[i] : i \in 1..Len(UpperChars)} |->
        LowerChars[CHOOSE i \in 1..Len(UpperChars) : UpperChars[i] = c]]

\* str.lower() on one character
LowerChar(c) == IF c \in DOMAIN LowerOf THEN LowerOf[c] ELSE c

\* str.lower()
Lower(s) == [i \in 1..Len(s) |-> LowerChar(s[i])]

\* str.startswith / str.endswith
StartsWith(s, p) == Len(p) <= Len(s) /\ SubSeq(s, 1, Len(p)) = p
EndsWith(s, p) == Len(p) <= Len(s) /\ SubSeq(s, Len(s) - Len(p) + 1, Len(s)) = p

\* whether p (non-empty) occurs in s at index i
OccursAt(s, p, i) ==
    /\ i >= 1 /\ i + Len(p) - 1 <= Len(s)
    /\ s[i] = p[1]
    /\ SubSeq(s, i, i + Len(p) - 1) = p

RECURSIVE ReplaceFrom(_, _, _, _)
\* s[i..] with every non-overlapping occurrence of old, left to right, replaced
ReplaceFrom(s, old, new, i) ==
    LET found == {j \in i..Len(s) : OccursAt(s, old, j)}
    IN  IF found = {} THEN SubSeq(s, i, Len(s))
        ELSE LET j == CHOOSE x \in found : \A y \in found : x <= y
             IN  SubSeq(s, i, j - 1) \o new \o ReplaceFrom(s, old, new, j + Len(old))

\* str.replace(old, new), old non-empty
Replace(s, old, new) == ReplaceFrom(s, old, new, 1)

RECURSIVE SplitFrom(_, _, _)
\* the pieces of s[i..] between the separators
SplitFrom(s, sep, i) ==
    LET found == {j \in i..Len(s) : s[j] = sep}
    IN  IF found = {} THEN <<SubSeq(s, i, Len(s))>>
        ELSE LET j == CHOOSE x \in found : \A y \in found : x <= y
             IN  <<SubSeq(s, i, j - 1)>> \o SplitFrom(s, sep, j + 1)

\* str.split(sep) for a one-character separator
Split(s, sep) == SplitFrom(s, sep, 1)

RECURSIVE LStrip(_, _)
\* str.lstrip(c)
LStrip(s, c) == IF s /= <<>> /\ s[1] = c THEN LStrip(Tail(s), c) ELSE s

RECURSIVE RStrip(_, _)
RStrip(s, c) ==
    IF s /= <<>> /\ s[Len(s)] = c THEN RStrip(SubSeq(s, 1, Len(s) - 1), c) ELSE s

\* str.strip(c)
Strip(s, c) == RStrip(LStrip(s, c), c)

RECURSIVE ToInt(_)
\* int() of a run of decimal digits
ToInt(ds) ==
    IF ds = <<>> THEN 0
    ELSE 10 * ToInt(SubSeq(ds, 1, Len(ds) - 1)) + DigitVal[ds[Len(ds)]]

RECURSIVE DigitRunEnd(_, _)
\* \d+ is greedy: the last index of the digit run that starts at i
DigitRunEnd(s, i) ==
    IF i < Len(s) /\ IsDigit(s[i + 1]) THEN DigitRunEnd(s, i + 1) ELSE i

Min(S) == CHOOSE x \in S : \A y \in S : x <= y

(***************************************************************************)
(* Frame-number extraction                                                 *)
(***************************************************************************)
\* A plausible slip: the Caller anchored on the last digit run.
Caller_extract_frame_number_last(frame_file) ==
    LET starts == {i \in 1..Len(frame_file) : IsDigit(frame_file[i])}
    IN  IF starts = {} THEN 0
        ELSE LET e == CHOOSE x \in starts : \A y \in starts : y <= x
                 b == CHOOSE x \in 1..e :
                        /\ \A k \in x..e : IsDigit(frame_file[k])
                        /\ (x = 1 \/ ~IsDigit(frame_file[x - 1]))
             IN  ToInt(SubSeq(frame_file, b, e))

\* Inference Caller: re.search(r'(\d+)', frame_file); 0 when nothing matches
Caller_extract_frame_number(frame_file) ==
    LET starts == {i \in 1..Len(frame_file) : IsDigit(frame_file[i])}
    IN  IF starts = {} THEN 0
        ELSE LET i == Min(starts)
             IN  ToInt(SubSeq(frame_file, i, DigitRunEnd(frame_file, i)))

\* where the digits of frame[_-]?(\d+) start when the pattern is tried at index i
FrameDigitsAt(s, i) ==
    IF i + 5 <= Len(s) /\ s[i + 5] \in {"_", "-"} THEN i + 6 ELSE i + 5

\* whether frame[_-]?(\d+), re.IGNORECASE, matches at index i
FramePatternAt(s, i) ==
    /\ i + 4 <= Len(s)
    /\ Lower(SubSeq(s, i, i + 4)) = <<"f","r","a","m","e">>
    /\ FrameDigitsAt(s, i) <= Len(s)
    /\ IsDigit(s[FrameDigitsAt(s, i)])

\* Outlier Detector: re.search(r'frame[_-]?(\d+)', name, re.IGNORECASE); None when
\* nothing matches
Detector_extract_frame_number(frame_filename) ==
    LET hits == {i \in 1..Len(frame_filename) : FramePatternAt(frame_filename, i)}
    IN  IF hits = {} THEN None
        ELSE LET d == FrameDigitsAt(frame_filename, Min(hits))
             IN  Some(ToInt(SubSeq(frame_filename, d, DigitRunEnd(frame_filename, d))))

(***************************************************************************)
(* File names the extraction is exercised on: up to MaxPieces pieces.      *)
(***************************************************************************)
MaxPieces == 3

NamePieces ==
    { <<"f","r","a","m","e">>, <<"F","r","a","M","E">>, <<"f","r","a","m">>,
      <<"_">>, <<"-">>, <<"1">>, <<"0","7">>, <<"4","2">>, <<"f">>, <<"x">>,
      <<".","j","p","g">>, <<".","j","s","o","n">> }

RECURSIVE NamesOf(_)
NamesOf(n) ==
    IF n = 0 THEN {<<>>}
    ELSE LET shorter == NamesOf(n - 1)
         IN  shorter \cup {s \o p : s \in shorter, p \in NamePieces}

FileNames == NamesOf(MaxPieces)

FrameIdle ==
    /\ fx_name = <<>>
    /\ fx_caller = None
    /\ fx_detector = None

CallerExtract ==
    /\ fx_caller = None
    /\ fx_caller' = Some(Caller_extract_frame_number(fx_name))
    /\ UNCHANGED <<fx_name, fx_detector, fxRest>>

DetectorExtract ==
    /\ fx_detector = None
    /\ fx_detector' = Some(Detector_extract_frame_number(fx_name))
    /\ UNCHANGED <<fx_name, fx_caller, fxRest>>

(***************************************************************************)
(* Values shared by the three handlers                                     *)
(***************************************************************************)
\* os.path.basename: what follows the last "/"
Basename(p) == LET parts == Split(p, "/") IN parts[Len(parts)]

RECURSIVE JoinWith(_, _)
JoinWith(parts, sep) ==
    IF parts = <<>> THEN <<>>
    ELSE IF Len(parts) = 1 THEN parts[1]
    ELSE parts[1] \o <<sep>> \o JoinWith(Tail(parts), sep)

\* str(PurePosixPath(*parts)) for relative parts: the segments of every part,
\* empty segments dropped, joined by "/"; "." when nothing is left
PosixPath(parts) ==
    LET segs == SelectSeq(Split(JoinWith(parts, "/"), "/"), LAMBDA x : x /= <<>>)
    IN  IF segs = <<>> THEN <<".">> ELSE JoinWith(segs, "/")

\* urllib.parse.unquote_plus on strings without "%": "+" becomes " "
UnquotePlus(s) == [i \in 1..Len(s) |-> IF s[i] = "+" THEN " " ELSE s[i]]

\* urllib.parse.urlparse on strings without "?", "#": the netloc is what lies
\* between "//" after the scheme and the next "/", the path is the rest
UrlParse(u) ==
    LET colons == {i \in 1..Len(u) : u[i] = ":"}
        rest == IF colons = {} \/ Min(colons) = 1 THEN u
                ELSE SubSeq(u, Min(colons) + 1, Len(u))
    IN  IF StartsWith(rest, <<"/", "/">>)
        THEN LET after == SubSeq(rest, 3, Len(rest))
                 slashes == {i \in 1..Len(after) : after[i] = "/"}
                 cut == IF slashes = {} THEN Len(after) + 1 ELSE Min(slashes)
             IN  [netloc |-> SubSeq(after, 1, cut - 1),
                  path |-> SubSeq(after, cut, Len(after))]
        ELSE [netloc |-> <<>>, path |-> rest]

\* the detections an endpoint response, and so a result record, may carry.
\* confidence is the JSON type of the member: "number", "string", "null" or "absent".
Detection(label, confidence) == [label |-> label, confidence |-> confidence]

L_tampering == <<"t","a","m","p","e","r","i","n","g">>
L_Tampering == <<"T","a","m","p","e","r","i","n","g">>
L_tamper == <<"t","a","m","p","e","r">>
L_no_helmet == <<"n","o","_","h","e","l","m","e","t">>
L_helmet == <<"h","e","l","m","e","t">>
L_person == <<"p","e","r","s","o","n">>

PLACEHOLDER_URL ==
    <<"N","/","A"," ","(","P","r","o","c","e","s","s","e","d"," ","b","y"," ",
      "S","a","g","e","M","a","k","e","r",")">>

(***************************************************************************)
(* Inference Caller                                                        *)
(***************************************************************************)
OUTPUT_BUCKET == <<"o","u","t">>
ANNOTATED_BUCKET == OUTPUT_BUCKET
OUTPUT_PREFIX == <<"i","n","f","e","r","e","n","c","e","-","r","e","s","u","l","t","s">>
ANNOTATED_PREFIX == <<"a","n","n","o","t","a","t","e","d","-","f","r","a","m","e","s">>
UNKNOWN_VIDEO == <<"u","n","k","n","o","w","n","-","v","i","d","e","o">>
UNKNOWN_FRAME == <<"u","n","k","n","o","w","n","-","f","r","a","m","e",".","j","p","g">>

EXT_jpg == <<".","j","p","g">>
EXT_png == <<".","p","n","g">>
EXT_json == <<".","j","s","o","n">>

\* the queue message bodies of the model.  kind is what json.loads makes of the
\* body: "malformed" (it raises), "nonobject" (not a dict) or "object".
Body(kind, s3_uri, original_video_key, frame_file) ==
    [kind |-> kind, s3_uri |-> s3_uri,
     original_video_key |-> original_video_key, frame_file |-> frame_file]

URI_frame == <<"s","3",":","/","/","i","n","/","v","/","f","1",".","j","p","g">>
URI_nokey == <<"s","3",":","/","/","i","n">>
URI_nobucket == <<"v","/","f","1",".","j","p","g">>

VIDEO_plain == <<"v",".","m","p","4">>
VIDEO_nested == <<"u","p","/","v",".","m","p","4">>

FRAME_f1 == <<"f","1",".","j","p","g">>
FRAME_frame7 == <<"f","r","a","m","e","_","0","0","7",".","p","n","g">>
FRAME_nodigit == <<"f","r","a","m","e",".","j","p","g">>
FRAME_jpeg == <<"f","2",".","j","p","e","g">>

CallerBodies ==
    { Body("malformed", None, None, None),
      Body("object", None, Some(VIDEO_plain), Some(FRAME_f1)),
      Body("object", Some(URI_nokey), Some(VIDEO_plain), Some(FRAME_f1)),
      Body("object", Some(URI_nobucket), Some(VIDEO_plain), Some(FRAME_f1)),
      Body("object", Some(URI_frame), Some(VIDEO_plain), Some(FRAME_f1)),
      Body("object", Some(URI_frame), Some(VIDEO_nested), Some(FRAME_frame7)),
      Body("object", Some(URI_frame), Some(VIDEO_plain), Some(FRAME_jpeg)),
      Body("object", Some(URI_frame), None, None) }

\* an SQS record: either member may be missing from the dict
CallerRecords ==
    [messageId : {TRUE}, body : {Some(b) : b \in CallerBodies}]
    \cup { [messageId |-> TRUE, body |-> None],
           [messageId |-> TRUE, body |-> Some(Body("nonobject", None, None, None))],
           [messageId |-> FALSE, body |-> None],
           [messageId |-> FALSE,
            body |-> Some(Body("object", Some(URI_frame), Some(VIDEO_plain),
                               Some(FRAME_nodigit)))] }

MaxBatch == 2

RECURSIVE SeqsUpTo(_, _)
\* the sequences over S of length at most n
SeqsUpTo(S, n) ==
    IF n = 0 THEN {<<>>}
    ELSE LET shorter == SeqsUpTo(S, n - 1)
         IN  shorter \cup {Append(q, x) : q \in shorter, x \in S}

\* what the endpoint's response body decodes to
EndpointDetections ==
    { <<>>,
      <<Detection(Some(L_person), "number"), Detection(Some(L_Tampering), "number")>> }

\* the outcomes of the external calls made for one record.  raises: the first
\* call that raises ("none": none does); the endpoint's body decodes to an object
\* with a "detections" list or to one without the member; draw_boxes returns the
\* annotated image or, having caught its own fault, the original bytes
Outcome(raises, response, detections, draw_boxes) ==
    [raises |-> raises, response |-> response, detections |-> detections,
     draw_boxes |-> draw_boxes]

CallerOutcomes ==
    { Outcome(r, "list", <<>>, "annotated") :
        r \in {"get_object", "invoke_endpoint", "response"} }
    \cup { Outcome(r, "list", d, w) :
             r \in {"put_annotated", "put_result", "none"},
             d \in EndpointDetections, w \in {"annotated", "original"} }
    \cup { Outcome(r, "no_detections", <<>>, "annotated") :
             r \in {"put_result", "none"} }

original_video_key(body) ==
    IF body.original_video_key = None THEN UNKNOWN_VIDEO ELSE body.original_video_key[1]

frame_file(body) ==
    IF body.frame_file = None THEN UNKNOWN_FRAME ELSE body.frame_file[1]

original_video_name(body) == Basename(original_video_key(body))

annotated_key(body) ==
    LET clean_annotated_prefix == Strip(ANNOTATED_PREFIX, "/")
    IN  PosixPath(IF clean_annotated_prefix /= <<>>
                  THEN <<clean_annotated_prefix, original_video_name(body), frame_file(body)>>
                  ELSE <<original_video_name(body), frame_file(body)>>)

frame_json(body) == Replace(Replace(frame_file(body), EXT_jpg, EXT_json), EXT_png, EXT_json)

result_key(body) ==
    LET clean_output_prefix == Strip(OUTPUT_PREFIX, "/")
    IN  PosixPath(IF clean_output_prefix /= <<>>
                  THEN <<clean_output_prefix, original_video_name(body), frame_json(body)>>
                  ELSE <<original_video_name(body), frame_json(body)>>)

S3Uri(bucket, key) == <<"s","3",":","/","/">> \o bucket \o <<"/">> \o key

\* detection_results.get('detections', [])
ResponseDetections(o) == IF o.response = "list" THEN o.detections ELSE <<>>

\* the annotated image object: the frame with the boxes of the detections drawn,
\* or the frame as downloaded
AnnotatedImage(o) ==
    [kind |-> "image",
     boxes |-> IF o.draw_boxes = "annotated" THEN ResponseDetections(o) ELSE <<>>]

\* json.dumps(full_response_payload): a JSON member is Some(value), value None for null
full_response_payload(body, o) ==
    [kind |-> "json",
     video_id |-> Some(Some(original_video_name(body))),
     frame_number |-> Some(Some(Caller_extract_frame_number(frame_file(body)))),
     detections |-> Some([list |-> TRUE, items |-> ResponseDetections(o)]),
     processed_frame_url |-> Some(Some(PLACEHOLDER_URL)),
     annotated_frame_s3_uri |-> Some(Some(S3Uri(ANNOTATED_BUCKET, annotated_key(body))))]

\* the stage of the try block at which handling the record raises, "none" if none
CallerStage(record, o) ==
    IF record.body = None THEN "body"
    ELSE LET body == record.body[1]
         IN  IF body.kind = "malformed" THEN "json"
             ELSE IF body.kind /= "object" \/ body.s3_uri = None THEN "s3_uri"
             ELSE LET parsed_uri == UrlParse(body.s3_uri[1])
                      bucket == parsed_uri.netloc
                      key == UnquotePlus(LStrip(parsed_uri.path, "/"))
                  IN  IF bucket = <<>> \/ key = <<>> THEN "locator" ELSE o.raises

\* what is kept of the external calls of a pass: for a processed record the
\* endpoint's response and what draw_boxes returned, else only the stage that raised
Observed(record, o) ==
    IF CallerStage(record, o) = "none" THEN o
    ELSE Outcome(CallerStage(record, o), "unkept", <<>>, "unkept")

\* msg: the place in c_stage of the pass the call was made in (the index of the
\* record, while the batch is handled for the first time)
PutCall(msg, bucket, key, object) ==
    [msg |-> msg, bucket |-> bucket, key |-> key, object |-> object]

\* A plausible slip: the result record is written first and the annotated image
\* after it, so a fault at the second put_object leaves a result record behind.
CallerPuts_result_first(msg, record, o) ==
    LET stage == CallerStage(record, o)
        body == record.body[1]
    IN  IF stage \notin {"put_result", "none"} THEN <<>>
        ELSE <<PutCall(msg, OUTPUT_BUCKET, result_key(body),
                       full_response_payload(body, o))>>
             \o (IF stage = "none"
                 THEN <<PutCall(msg, ANNOTATED_BUCKET, annotated_key(body),
                                AnnotatedImage(o))>>
                 ELSE <<>>)

\* A plausible slip: the result record's key is made unique per handling, by a
\* suffix that counts the records handled so far.
CallerPuts_per_handling(msg, record, o) ==
    LET stage == CallerStage(record, o)
        body == record.body[1]
        ordinal == CHOOSE c \in DOMAIN DigitVal : DigitVal[c] = msg % 10
    IN  IF stage \notin {"put_result", "none"} THEN <<>>
        ELSE <<PutCall(msg, ANNOTATED_BUCKET, annotated_key(body), AnnotatedImage(o))>>
             \o (IF stage = "none"
                 THEN <<PutCall(msg, OUTPUT_BUCKET, result_key(body) \o <<".", ordinal>>,
                                full_response_payload(body, o))>>
                 ELSE <<>>)

\* the put_object calls that return while the record is handled, in order; msg
\* counts the records handled, redelivered ones included
CallerPuts(msg, record, o) ==
    LET stage == CallerStage(record, o)
        body == record.body[1]
    IN  IF stage \notin {"put_result", "none"} THEN <<>>
        ELSE <<PutCall(msg, ANNOTATED_BUCKET, annotated_key(body), AnnotatedImage(o))>>
             \o (IF stage = "none"
                 THEN <<PutCall(msg, OUTPUT_BUCKET, result_key(body),
                                full_response_payload(body, o))>>
                 ELSE <<>>)

RECURSIVE StoreAfter(_, _)
\* the object store after the put_object calls: a later put overwrites
StoreAfter(store, puts) ==
    IF puts = <<>> THEN store
    ELSE StoreAfter((<<puts[1].bucket, puts[1].key>> :> puts[1].object) @@ store,
                    Tail(puts))

\* A plausible slip: the except block keeps only the latest failure.
RecordFailure_latest(failed, itemIdentifier) == <<[itemIdentifier |-> itemIdentifier]>>

\* failed_messages.append({'itemIdentifier': record['messageId']})
RecordFailure(failed, itemIdentifier) ==
    Append(failed, [itemIdentifier |-> itemIdentifier])

\* an invocation on a batch of at most n records
CallerInvoked(n) ==
    /\ c_env \in BOOLEAN
    /\ c_records \in SeqsUpTo(CallerRecords, n)
    /\ c_pc = "start"
    /\ c_i = 1
    /\ failed_messages = <<>>
    /\ processed_count = 0
    /\ c_result = None
    /\ c_puts = <<>>
    /\ c_stage = <<>>
    /\ c_seen = <<>>
    /\ s3 = <<>>

CallerInit == CallerInvoked(MaxBatch)

\* lines 102-103: a missing required variable raises before any record is read
CallerConfigError ==
    /\ c_pc = "start" /\ ~c_env
    /\ c_pc' = "raised"
    /\ UNCHANGED <<c_env, c_records, c_i, failed_messages, processed_count, c_result,
                   c_puts, c_stage, c_seen, s3, callerRest>>

CallerStart ==
    /\ c_pc = "start" /\ c_env
    /\ c_pc' = "loop"
    /\ UNCHANGED <<c_env, c_records, c_i, failed_messages, processed_count, c_result,
                   c_puts, c_stage, c_seen, s3, callerRest>>

\* one pass of the loop whose try block runs to its end
CallerRecordOk ==
    /\ c_pc = "loop" /\ c_i <= Len(c_records)
    /\ \E o \in CallerOutcomes :
         /\ CallerStage(c_records[c_i], o) = "none"
         /\ c_puts' = c_puts \o CallerPuts(Len(c_stage) + 1, c_records[c_i], o)
         /\ c_seen' = Append(c_seen, Observed(c_records[c_i], o))
         /\ s3' = StoreAfter(s3, CallerPuts(Len(c_stage) + 1, c_records[c_i], o))
    /\ processed_count' = processed_count + 1
    /\ c_stage' = Append(c_stage, "none")
    /\ c_i' = c_i + 1
    /\ UNCHANGED <<c_env, c_records, c_pc, failed_messages, c_result, callerRest>>

\* one pass of the loop whose try block raises: the except block records the
\* message identifier
CallerRecordFailed ==
    /\ c_pc = "loop" /\ c_i <= Len(c_records)
    /\ c_records[c_i].messageId
    /\ \E o \in CallerOutcomes :
         /\ CallerStage(c_records[c_i], o) /= "none"
         /\ c_puts' = c_puts \o CallerPuts(Len(c_stage) + 1, c_records[c_i], o)
         /\ c_seen' = Append(c_seen, Observed(c_records[c_i], o))
         /\ s3' = StoreAfter(s3, CallerPuts(Len(c_stage) + 1, c_records[c_i], o))
         /\ c_stage' = Append(c_stage, CallerStage(c_records[c_i], o))
    /\ failed_messages' = RecordFailure(failed_messages, c_i)
    /\ c_i' = c_i + 1
    /\ UNCHANGED <<c_env, c_records, c_pc, processed_count, c_result, callerRest>>

\* the same, for a record without 'messageId': record['messageId'] raises KeyError
\* inside the except block, and the handler ends with it
CallerRecordRaises ==
    /\ c_pc = "loop" /\ c_i <= Len(c_records)
    /\ ~c_records[c_i].messageId
    /\ \E o \in CallerOutcomes :
         /\ CallerStage(c_records[c_i], o) /= "none"
         /\ c_puts' = c_puts \o CallerPuts(Len(c_stage) + 1, c_records[c_i], o)
         /\ c_seen' = Append(c_seen, Observed(c_records[c_i], o))
         /\ s3' = StoreAfter(s3, CallerPuts(Len(c_stage) + 1, c_records[c_i], o))
         /\ c_stage' = Append(c_stage, CallerStage(c_records[c_i], o))
    /\ c_pc' = "raised"
    /\ UNCHANGED <<c_env, c_records, c_i, failed_messages, processed_count, c_result,
                   callerRest>>

\* lines 211-217
CallerReturn ==
    /\ c_pc = "loop" /\ c_i > Len(c_records)
    /\ c_pc' = "returned"
    /\ c_result' =
         Some(IF failed_messages /= <<>>
              THEN [batchItemFailures |-> failed_messages]
              ELSE [statusCode |-> 200, processed |-> processed_count])
    /\ UNCHANGED <<c_env, c_records, c_i, failed_messages, processed_count, c_puts,
                   c_stage, c_seen, s3, callerRest>>

CallerNext ==
    \/ CallerConfigError
    \/ CallerStart
    \/ CallerRecordOk
    \/ CallerRecordFailed
    \/ CallerRecordRaises
    \/ CallerReturn

(***************************************************************************)
(* Outlier Detector                                                        *)
(***************************************************************************)
\* the configured OUTLIER_CLASSES value of the model: "tampering, No_Helmet,"
OUTLIER_CLASSES_STR ==
    <<"t","a","m","p","e","r","i","n","g",","," ","N","o","_","H","e","l","m","e","t",",">>

\* {cls.strip().lower() for cls in OUTLIER_CLASSES_STR.split(',') if cls.strip()}
OUTLIER_CLASSES ==
    LET parts == Split(OUTLIER_CLASSES_STR, ",")
    IN  { Lower(Strip(parts[i], " ")) :
            i \in {k \in 1..Len(parts) : Strip(parts[k], " ") /= <<>>} }

RESULTS_PATH ==
    <<"i","n","f","e","r","e","n","c","e","-","r","e","s","u","l","t","s","/">>
FRAMES_PATH ==
    <<"e","x","t","r","a","c","t","e","d","-","f","r","a","m","e","s","/">>
ERROR_URL_TEXT ==
    <<"E","r","r","o","r"," ","g","e","n","e","r","a","t","i","n","g"," ","U","R","L",":"," ","e">>

\* ExpiresIn of the Detector's link: 24 hours
DETECTOR_EXPIRES_IN == 86400

\* a URL held as text, and a link made by generate_presigned_url
TextUrl(text) == [kind |-> "text", text |-> text]
PresignedUrl(signer, bucket, key, expires_in) ==
    [kind |-> "presigned", signer |-> signer, bucket |-> bucket, key |-> key,
     expires_in |-> expires_in]

\* a stored JSON document: a member is None when absent, Some(None) when null
ResultDoc(video_id, frame_number, detections, processed_frame_url) ==
    [kind |-> "json", video_id |-> video_id, frame_number |-> frame_number,
     detections |-> detections, processed_frame_url |-> processed_frame_url,
     annotated_frame_s3_uri |-> None]

\* unquote_plus(record['s3']['object']['key'])
object_key(record) == UnquotePlus(record.key[1])

\* inference_data.get('detections', []), a value that is no list replaced by []
predictions(doc) ==
    IF doc.detections = None \/ ~doc.detections[1].list THEN <<>>
    ELSE doc.detections[1].items

PyStr(opt) == IF opt = None THEN <<"N","o","n","e">> ELSE opt[1]

\* inference_data.get('video_id', path_parts[-2])
video_name(doc, path_parts) ==
    IF doc.video_id /= None THEN PyStr(doc.video_id[1])
    ELSE path_parts[Len(path_parts) - 1]

\* A plausible slip: the frame number always parsed from the file name.
frame_number_from_name(doc, frame_filename) ==
    Detector_extract_frame_number(frame_filename)

\* inference_data.get('frame_number', extract_frame_number(frame_filename))
frame_number(doc, frame_filename) ==
    IF doc.frame_number /= None THEN doc.frame_number[1]
    ELSE Detector_extract_frame_number(frame_filename)

\* A plausible slip: a substring test in place of set membership.
IsOutlier_substring(prediction) ==
    /\ prediction.label /= None
    /\ prediction.label[1] /= <<>>
    /\ \E c \in OUTLIER_CLASSES :
         \E i \in 1..Len(c) : OccursAt(c, Lower(prediction.label[1]), i)

\* lines 143-154: a label that is missing, null or empty is passed over
IsOutlier(prediction) ==
    /\ prediction.label /= None
    /\ prediction.label[1] /= <<>>
    /\ Lower(prediction.label[1]) \in OUTLIER_CLASSES

detected_outliers(preds) ==
    LET hits == SelectSeq(preds, IsOutlier)
    IN  [i \in 1..Len(hits) |->
            [class |-> hits[i].label[1], confidence |-> hits[i].confidence]]

\* line 168: f"{confidence:.2f}" raises for a matched detection whose confidence
\* is no number
ConfidenceRaises(preds) ==
    \E i \in 1..Len(preds) :
        IsOutlier(preds[i]) /\ preds[i].confidence \in {"string", "null"}

MaxClock == 1

\* what the calls made once an event is to be saved do: generate_presigned_url and
\* publish return or raise
SaveOutcomes == [presign : {"ok", "error"}, publish : {"ok", "error"}]

\* A plausible slip: a record without a frame number passed over like a skip.
DetectorPass_frame_skip(record, store, get_object, put_item) ==
    IF record.bucket = None \/ record.key = None THEN "event"
    ELSE LET key == object_key(record)
         IN
         IF ~StartsWith(key, RESULTS_PATH) \/ ~EndsWith(key, EXT_json) THEN "skipped"
         ELSE IF get_object = "error" \/ <<record.bucket[1], key>> \notin DOMAIN store
         THEN "get_object"
         ELSE LET inference_data == store[<<record.bucket[1], key>>]
                  path_parts == Split(key, "/")
              IN
              IF inference_data.kind /= "json" THEN "json"
              ELSE IF Len(path_parts) < 3 THEN "key_structure"
              ELSE IF frame_number(inference_data, path_parts[Len(path_parts)]) = None
              THEN "skipped"
              ELSE IF ConfidenceRaises(predictions(inference_data)) THEN "confidence"
              ELSE IF detected_outliers(predictions(inference_data)) = <<>> THEN "clean"
              ELSE IF put_item = "error" THEN "put_item"
              ELSE "outlier"

\* how one pass of the loop over the record ends
\* (get_object, put_item: "ok" or "error", what the call does if it is reached)
DetectorPass(record, store, get_object, put_item) ==
    IF record.bucket = None \/ record.key = None THEN "event"
    ELSE LET key == object_key(record)
         IN
         IF ~StartsWith(key, RESULTS_PATH) \/ ~EndsWith(key, EXT_json) THEN "skipped"
         ELSE IF get_object = "error" \/ <<record.bucket[1], key>> \notin DOMAIN store
         THEN "get_object"
         ELSE LET inference_data == store[<<record.bucket[1], key>>]
                  path_parts == Split(key, "/")
              IN
              IF inference_data.kind /= "json" THEN "json"
              ELSE IF Len(path_parts) < 3 THEN "key_structure"
              ELSE IF frame_number(inference_data, path_parts[Len(path_parts)]) = None
              THEN "frame_number"
              ELSE IF ConfidenceRaises(predictions(inference_data)) THEN "confidence"
              ELSE IF detected_outliers(predictions(inference_data)) = <<>> THEN "clean"
              ELSE IF put_item = "error" THEN "put_item"
              ELSE "outlier"

\* line 182: the processed_frame_url of the record is not used
NoProcessedUrl(doc) ==
    \/ doc.processed_frame_url = None
    \/ doc.processed_frame_url[1] = None
    \/ doc.processed_frame_url[1][1] = <<>>
    \/ doc.processed_frame_url[1][1] = PLACEHOLDER_URL

\* A plausible slip: the link of the fallback made with the Fetcher's one hour.
presigned_image_url_hour(record, doc, o) ==
    IF NoProcessedUrl(doc)
    THEN IF o.presign = "ok"
         THEN PresignedUrl("detector", record.bucket[1],
                           Replace(Replace(object_key(record), RESULTS_PATH, FRAMES_PATH),
                                   EXT_json, EXT_jpg),
                           3600)
         ELSE TextUrl(ERROR_URL_TEXT)
    ELSE TextUrl(doc.processed_frame_url[1][1])

\* lines 179-202
frame_image_key(record, doc) ==
    IF NoProcessedUrl(doc)
    THEN Replace(Replace(object_key(record), RESULTS_PATH, FRAMES_PATH), EXT_json, EXT_jpg)
    ELSE UnquotePlus(LStrip(UrlParse(doc.processed_frame_url[1][1]).path, "/"))

presigned_image_url(record, doc, o) ==
    IF NoProcessedUrl(doc)
    THEN IF o.presign = "ok"
         THEN PresignedUrl("detector", record.bucket[1], frame_image_key(record, doc),
                           DETECTOR_EXPIRES_IN)
         ELSE TextUrl(ERROR_URL_TEXT)
    ELSE TextUrl(doc.processed_frame_url[1][1])

\* lines 207-220, for a record that DetectorPass lets reach them
item_to_save(record, store, o, now) ==
    LET key == object_key(record)
        doc == store[<<record.bucket[1], key>>]
        path_parts == Split(key, "/")
        frame_filename == path_parts[Len(path_parts)]
        name == video_name(doc, path_parts)
    IN  [video_frame_timestamp |-> name \o <<"_">> \o Replace(frame_filename, EXT_json, <<>>),
         timestamp |-> now,
         videoName |-> name,
         frameNumber |-> frame_number(doc, frame_filename)[1],
         s3Bucket |-> record.bucket[1],
         s3Key |-> key,
         s3ImageKey |-> frame_image_key(record, doc),
         presignedImageUrl |-> presigned_image_url(record, doc, o),
         outliers |-> detected_outliers(predictions(doc)),
         totalDetections |-> Len(predictions(doc)),
         outlierCount |-> Len(detected_outliers(predictions(doc)))]

SameKey(a, b) ==
    a.video_frame_timestamp = b.video_frame_timestamp /\ a.timestamp = b.timestamp

\* table.put_item: the item with the same partition and sort key is replaced
PutItem(items, item) ==
    IF \E i \in 1..Len(items) : SameKey(items[i], item)
    THEN [i \in 1..Len(items) |-> IF SameKey(items[i], item) THEN item ELSE items[i]]
    ELSE Append(items, item)

\* A plausible slip: the threshold of "high" one too far.
Severity_above_three(outliers) == IF Len(outliers) > 3 THEN "high" ELSE "medium"

\* line 276
Severity(outliers) == IF Len(outliers) > 2 THEN "high" ELSE "medium"

PutItemCall(rec, item, returned) ==
    [op |-> "put_item", rec |-> rec, item |-> item, returned |-> returned]
PublishCall(rec, item, returned) ==
    [op |-> "publish", rec |-> rec, severity |-> Severity(item.outliers),
     videoName |-> item.videoName, returned |-> returned]

\* A plausible slip: a failed publish handled like any other fault of the record.
CountsAfterPublish_strict(counts, published) ==
    IF published
    THEN [processed |-> counts.processed + 1, outliers |-> counts.outliers + 1,
          errors |-> counts.errors]
    ELSE [processed |-> counts.processed, outliers |-> counts.outliers,
          errors |-> counts.errors + 1]

\* lines 287-299: the counters after the event is saved, whatever publish did
CountsAfterPublish(counts, published) ==
    [processed |-> counts.processed + 1, outliers |-> counts.outliers + 1,
     errors |-> counts.errors]

DetectorCounts ==
    [processed |-> d_processed_count, outliers |-> outlier_count, errors |-> error_count]

\* lines 86-93: the key is not under the results path, or is no .json
DetectorSkip ==
    /\ d_pc = "loop" /\ d_i <= Len(d_records)
    /\ DetectorPass(d_records[d_i], s3, "ok", "ok") = "skipped"
    /\ d_outcome' = Append(d_outcome, "skipped")
    /\ d_i' = d_i + 1
    /\ UNCHANGED <<d_topic, d_now, d_records, d_pc, d_processed_count, outlier_count,
                   error_count, d_result, table, d_calls, d_reads, s3, detectorRest>>

\* the pass ends in error_count += 1: lines 113-116, 126-130 and the except clauses
DetectorError ==
    /\ d_pc = "loop" /\ d_i <= Len(d_records)
    /\ \E calls \in {<<"ok", "ok">>, <<"error", "ok">>, <<"ok", "error">>} :
         LET how == DetectorPass(d_records[d_i], s3, calls[1], calls[2])
         IN  /\ how \in {"event", "get_object", "json", "key_structure", "frame_number",
                         "confidence", "put_item"}
             /\ d_outcome' = Append(d_outcome, how)
             /\ d_reads' = IF how = "event" THEN d_reads ELSE Append(d_reads, d_i)
             /\ IF how = "put_item"
                THEN \E o \in SaveOutcomes :
                        d_calls' =
                          Append(d_calls,
                                 PutItemCall(d_i, item_to_save(d_records[d_i], s3, o, d_now), FALSE))
                ELSE d_calls' = d_calls
    /\ error_count' = error_count + 1
    /\ d_i' = d_i + 1
    /\ UNCHANGED <<d_topic, d_now, d_records, d_pc, d_processed_count, outlier_count,
                   d_result, table, s3, detectorRest>>

\* lines 296-299: no detection matched
DetectorClean ==
    /\ d_pc = "loop" /\ d_i <= Len(d_records)
    /\ DetectorPass(d_records[d_i], s3, "ok", "ok") = "clean"
    /\ d_outcome' = Append(d_outcome, "clean")
    /\ d_reads' = Append(d_reads, d_i)
    /\ d_processed_count' = d_processed_count + 1
    /\ d_i' = d_i + 1
    /\ UNCHANGED <<d_topic, d_now, d_records, d_pc, outlier_count, error_count, d_result,
                   table, d_calls, s3, detectorRest>>

\* lines 171-299: the event is saved, then published when a topic is configured
DetectorOutlier ==
    /\ d_pc = "loop" /\ d_i <= Len(d_records)
    /\ DetectorPass(d_records[d_i], s3, "ok", "ok") = "outlier"
    /\ \E o \in SaveOutcomes :
         /\ LET item == item_to_save(d_records[d_i], s3, o, d_now)
                after == CountsAfterPublish(DetectorCounts, ~d_topic \/ o.publish = "ok")
            IN  /\ table' = PutItem(table, item)
                /\ d_calls' =
                     Append(d_calls, PutItemCall(d_i, item, TRUE))
                     \o (IF d_topic
                         THEN <<PublishCall(d_i, item, o.publish = "ok")>>
                         ELSE <<>>)
                /\ d_processed_count' = after.processed
                /\ outlier_count' = after.outliers
                /\ error_count' = after.errors
    /\ d_outcome' = Append(d_outcome, "outlier")
    /\ d_reads' = Append(d_reads, d_i)
    /\ d_i' = d_i + 1
    /\ UNCHANGED <<d_topic, d_now, d_records, d_pc, d_result, s3, detectorRest>>

\* lines 324-332
DetectorReturn ==
    /\ d_pc = "loop" /\ d_i > Len(d_records)
    /\ d_pc' = "returned"
    /\ d_result' =
         Some([statusCode |-> 200, processed |-> d_processed_count,
               outliersFound |-> outlier_count, errors |-> error_count])
    /\ UNCHANGED <<d_topic, d_now, d_records, d_i, d_processed_count, outlier_count,
                   error_count, table, d_calls, d_outcome, d_reads, s3, detectorRest>>

DetectorNext ==
    \/ DetectorSkip
    \/ DetectorError
    \/ DetectorClean
    \/ DetectorOutlier
    \/ DetectorReturn

(***************************************************************************)
(* The storage notifications and stored objects the Detector is run on     *)
(***************************************************************************)
BUCKET_out == OUTPUT_BUCKET
KEY_f1 == RESULTS_PATH \o <<"v",".","m","p","4","/","f","1",".","j","s","o","n">>
KEY_frame7 ==
    RESULTS_PATH \o <<"v",".","m","p","4","/","f","r","a","m","e","_","0","0","7",".","j","s","o","n">>
KEY_flat == RESULTS_PATH \o <<"f","1",".","j","s","o","n">>
KEY_annotated ==
    <<"a","n","n","o","t","a","t","e","d","-","f","r","a","m","e","s","/",
      "v",".","m","p","4","/","f","1",".","j","p","g">>
URL_processed ==
    <<"h","t","t","p","s",":","/","/","c","d","n","/","p","/","f","1",".","j","p","g">>

VIDEO_ID == Some(Some(VIDEO_plain))
DetList(items) == Some([list |-> TRUE, items |-> items])
Placeholder == Some(Some(PLACEHOLDER_URL))
Tampering(confidence) == Detection(Some(L_tampering), confidence)

DetectorInput(bucket, key, object) ==
    [event |-> [bucket |-> bucket, key |-> key], object |-> object]

\* each input: a notification and the object stored under its key (None: no object)
DetectorInputs ==
    LET B == Some(BUCKET_out)
        Written(key, dets) ==
            DetectorInput(B, Some(key),
                          Some(ResultDoc(VIDEO_ID, Some(Some(1)), DetList(dets), Placeholder)))
    IN
    { Written(KEY_f1, <<>>),
      Written(KEY_f1, <<Detection(Some(L_person), "number"),
                        Detection(Some(L_Tampering), "number")>>),
      Written(KEY_f1, <<Detection(Some(L_tamper), "number"),
                        Detection(Some(L_helmet), "number"),
                        Detection(None, "number"), Detection(Some(<<>>), "number")>>),
      Written(KEY_f1, <<Detection(Some(L_no_helmet), "absent"), Tampering("number"),
                        Detection(Some(L_Tampering), "number")>>),
      Written(KEY_f1, <<Tampering("string")>>),
      Written(KEY_flat, <<Tampering("number")>>),
      DetectorInput(B, Some(KEY_f1),
                    Some(ResultDoc(VIDEO_ID, None, DetList(<<Tampering("number")>>),
                                   Some(Some(<<>>))))),
      DetectorInput(B, Some(KEY_frame7),
                    Some(ResultDoc(None, None, DetList(<<Tampering("number")>>), None))),
      DetectorInput(B, Some(KEY_f1),
                    Some(ResultDoc(VIDEO_ID, Some(Some(1)), DetList(<<Tampering("number")>>),
                                   Some(Some(URL_processed))))),
      DetectorInput(B, Some(KEY_f1), Some([kind |-> "malformed"])),
      DetectorInput(B, Some(KEY_annotated), Some([kind |-> "image", boxes |-> <<>>])),
      DetectorInput(B, None, None) }

MaxEvents == 2

RECURSIVE StoreOf(_)
\* the object store that holds the objects of the inputs: a later one overwrites
StoreOf(inputs) ==
    IF inputs = <<>> THEN <<>>
    ELSE LET first == inputs[1]
             rest == StoreOf(Tail(inputs))
         IN  IF first.object = None \/ first.event.bucket = None \/ first.event.key = None
                \/ <<first.event.bucket[1], UnquotePlus(first.event.key[1])>> \in DOMAIN rest
             THEN rest
             ELSE (<<first.event.bucket[1], UnquotePlus(first.event.key[1])>>
                      :> first.object[1]) @@ rest

DetectorFresh ==
    /\ d_pc = "loop"
    /\ d_i = 1
    /\ d_processed_count = 0
    /\ outlier_count = 0
    /\ error_count = 0
    /\ d_result = None
    /\ table = <<>>
    /\ d_calls = <<>>
    /\ d_outcome = <<>>
    /\ d_reads = <<>>

DetectorInit ==
    /\ d_topic \in BOOLEAN
    /\ d_now \in 1..MaxClock
    /\ \E inputs \in SeqsUpTo(DetectorInputs, MaxEvents) :
         /\ d_records = [i \in 1..Len(inputs) |-> inputs[i].event]
         /\ s3 = StoreOf(inputs)
    /\ DetectorFresh

\* no invocation of the Detector under way
DetectorQuiet ==
    /\ d_topic = FALSE
    /\ d_now = 1
    /\ d_records = <<>>
    /\ d_pc = "idle"
    /\ d_i = 1
    /\ d_processed_count = 0
    /\ outlier_count = 0
    /\ error_count = 0
    /\ d_result = None
    /\ d_calls = <<>>
    /\ d_outcome = <<>>
    /\ d_reads = <<>>

DetectorIdle == DetectorQuiet /\ table = <<>>

FetcherIdle ==
    /\ f_event = <<>>
    /\ f_pc = "idle"
    /\ f_response = None
    /\ f_calls = <<>>

vars == <<fxVars, s3, callerVars, detectorVars, fetcherVars>>

CallerIdle ==
    /\ c_env = TRUE
    /\ c_records = <<>>
    /\ c_pc = "returned"
    /\ c_i = 1
    /\ failed_messages = <<>>
    /\ processed_count = 0
    /\ c_result = None
    /\ c_puts = <<>>
    /\ c_stage = <<>>
    /\ c_seen = <<>>

(***************************************************************************)
(* Outlier Fetcher                                                         *)
(***************************************************************************)
\* limit when the query has none
DEFAULT_LIMIT == 50
\* ExpiresIn of the Fetcher's links: one hour
FETCHER_EXPIRATION == 3600

\* lines 54-59
headers ==
    [ContentType |-> "application/json",
     AccessControlAllowOrigin |-> "*",
     AccessControlAllowHeaders |->
         "Content-Type,X-Amz-Date,Authorization,X-Api-Key,X-Amz-Security-Token",
     AccessControlAllowMethods |-> "GET,OPTIONS"]

\* dict.get(field): None when the item has no such attribute
Get(item, field) == IF field \in DOMAIN item THEN Some(item[field]) ELSE None

\* truth value of an optional string: neither None nor ''
Truthy(opt) == opt /= None /\ opt[1] /= <<>>

\* int() of a string: None when it raises ValueError
PyInt(text) ==
    LET t == Strip(text, " ")
        signed == t /= <<>> /\ t[1] \in {"+", "-"}
        digits == IF signed THEN Tail(t) ELSE t
    IN  IF digits = <<>> \/ \E i \in 1..Len(digits) : ~IsDigit(digits[i]) THEN None
        ELSE IF signed /\ t[1] = "-" THEN Some(0 - ToInt(digits))
        ELSE Some(ToInt(digits))

\* the query string parameters; each is None when the query lacks it
Query(limit, videoName, startDate, endDate) ==
    [limit |-> limit, videoName |-> videoName, startDate |-> startDate,
     endDate |-> endDate]

Request(httpMethod, queryStringParameters) ==
    [httpMethod |-> httpMethod, queryStringParameters |-> queryStringParameters]

\* line 65
params(event) ==
    IF event.queryStringParameters = None THEN Query(None, None, None, None)
    ELSE event.queryStringParameters[1]

\* line 66: None when int() raises
limit(event) ==
    IF params(event).limit = None THEN Some(DEFAULT_LIMIT)
    ELSE PyInt(params(event).limit[1])

\* lines 66, 80, 84: the first int() that raises, if any
ParamError(event) ==
    LET p == params(event)
    IN  IF limit(event) = None THEN Some("limit")
        ELSE IF Truthy(p.startDate) /\ PyInt(p.startDate[1]) = None THEN Some("startDate")
        ELSE IF Truthy(p.endDate) /\ PyInt(p.endDate[1]) = None THEN Some("endDate")
        ELSE None

\* lines 76-85: the filter expression applied to one item
Matches(item, p) ==
    /\ Truthy(p.videoName) =>
         (Get(item, "videoName") = Some(p.videoName[1]))
    /\ Truthy(p.startDate) =>
         ("timestamp" \in DOMAIN item /\ item.timestamp >= PyInt(p.startDate[1])[1])
    /\ Truthy(p.endDate) =>
         ("timestamp" \in DOMAIN item /\ item.timestamp <= PyInt(p.endDate[1])[1])

\* table.scan(Limit, FilterExpression): the first Limit items are read, then
\* filtered
Scan(items, lim, p) ==
    SelectSeq(SubSeq(items, 1, Min({lim, Len(items)})), LAMBDA item : Matches(item, p))

\* the service accepts no Limit below 1
ScanRejects(event) == limit(event)[1] < 1

\* lines 21-32: None for (None, None)
parse_s3_uri(s3_uri) ==
    LET parsed_uri == UrlParse(s3_uri)
        bucket == parsed_uri.netloc
        key == UnquotePlus(LStrip(parsed_uri.path, "/"))
    IN  IF bucket = <<>> \/ key = <<>> THEN None ELSE Some(<<bucket, key>>)

\* lines 34-45: None when generate_presigned_url raised
regenerate_presigned_url(bucket, image_key, generated) ==
    IF generated
    THEN Some(PresignedUrl("fetcher", bucket, image_key, FETCHER_EXPIRATION))
    ELSE None

\* lines 98-101: the annotated image the item refers to, None when it has none
AnnotatedTarget(item) ==
    IF Truthy(Get(item, "annotated_frame_s3_uri"))
    THEN parse_s3_uri(item.annotated_frame_s3_uri)
    ELSE None

\* lines 108-111
HasImageTarget(item) == Truthy(Get(item, "s3Bucket")) /\ Truthy(Get(item, "s3ImageKey"))

\* the generate_presigned_url calls the loop makes for an item
LinkCalls(item) ==
    (IF AnnotatedTarget(item) /= None THEN {"annotated"} ELSE {})
        \cup (IF HasImageTarget(item) THEN {"image"} ELSE {})

\* lines 108-114: failing holds the calls that raise
WithImageLink(item, failing) ==
    IF HasImageTarget(item) /\ "image" \notin failing
    THEN ("presignedImageUrl" :>
            regenerate_presigned_url(item.s3Bucket, item.s3ImageKey, TRUE)[1]) @@ item
    ELSE item

\* lines 98-105
WithAnnotatedLink(item, failing) ==
    IF AnnotatedTarget(item) /= None /\ "annotated" \notin failing
    THEN ("presignedAnnotatedImageUrl" :>
            regenerate_presigned_url(AnnotatedTarget(item)[1][1],
                                     AnnotatedTarget(item)[1][2], TRUE)[1]) @@ item
    ELSE item

\* lines 95-114, one item
WithLinks(item, failing) == WithImageLink(WithAnnotatedLink(item, failing), failing)

\* x.get('timestamp', 0)
SortKey(item) == IF "timestamp" \in DOMAIN item THEN item.timestamp ELSE 0

\* A plausible slip: the list sorted oldest first.
RECURSIVE SortNewestFirst_ascending(_)
SortNewestFirst_ascending(items) ==
    IF items = <<>> THEN <<>>
    ELSE LET sorted == SortNewestFirst_ascending(SubSeq(items, 1, Len(items) - 1))
             item == items[Len(items)]
             before == Cardinality({i \in 1..Len(sorted) : SortKey(sorted[i]) <= SortKey(item)})
         IN  SubSeq(sorted, 1, before) \o <<item>> \o SubSeq(sorted, before + 1, Len(sorted))

RECURSIVE SortNewestFirst(_)
\* line 118: a stable sort, reverse=True keeps the order of equal keys
SortNewestFirst(items) ==
    IF items = <<>> THEN <<>>
    ELSE LET sorted == SortNewestFirst(SubSeq(items, 1, Len(items) - 1))
             item == items[Len(items)]
             before == Cardinality({i \in 1..Len(sorted) : SortKey(sorted[i]) >= SortKey(item)})
         IN  SubSeq(sorted, 1, before) \o <<item>> \o SubSeq(sorted, before + 1, Len(sorted))

\* A plausible slip: count taken from the number of items the scan read.
SuccessEnvelope_scanned(items) ==
    [statusCode |-> 200, headers |-> headers,
     body |-> [success |-> TRUE, count |-> Len(table), events |-> items]]

\* lines 120-128
SuccessEnvelope(items) ==
    [statusCode |-> 200, headers |-> headers,
     body |-> [success |-> TRUE, count |-> Len(items), events |-> items]]

\* lines 135-142
FailureEnvelope(error) ==
    [statusCode |-> 500, headers |-> headers,
     body |-> [success |-> FALSE, error |-> error]]

\* the generate_presigned_url calls made for the scanned items, in order
RECURSIVE LinkLog(_, _, _)
LinkLog(items, failing, i) ==
    IF i > Len(items) THEN <<>>
    ELSE (IF "annotated" \in LinkCalls(items[i])
          THEN <<[op |-> "generate_presigned_url", item |-> i, link |-> "annotated",
                  returned |-> "annotated" \notin failing[i]]>>
          ELSE <<>>)
         \o (IF "image" \in LinkCalls(items[i])
             THEN <<[op |-> "generate_presigned_url", item |-> i, link |-> "image",
                     returned |-> "image" \notin failing[i]]>>
             ELSE <<>>)
         \o LinkLog(items, failing, i + 1)

\* lines 61-62
FetcherOptions ==
    /\ f_pc = "ready"
    /\ f_event.httpMethod = "OPTIONS"
    /\ f_response' = Some([statusCode |-> 200, headers |-> headers, body |-> ""])
    /\ f_pc' = "returned"
    /\ UNCHANGED <<f_event, f_calls, fetcherRest>>

\* lines 64-90 raise, lines 130-142
FetcherFailure ==
    /\ f_pc = "ready"
    /\ f_event.httpMethod /= "OPTIONS"
    /\ \/ /\ ParamError(f_event) /= None
          /\ f_response' = Some(FailureEnvelope(ParamError(f_event)[1]))
          /\ f_calls' = f_calls
       \/ /\ ParamError(f_event) = None
          /\ f_response' = Some(FailureEnvelope("scan"))
          /\ f_calls' = Append(f_calls, [op |-> "scan", returned |-> FALSE])
    /\ f_pc' = "returned"
    /\ UNCHANGED <<f_event, fetcherRest>>

\* lines 64-128
FetcherSuccess ==
    /\ f_pc = "ready"
    /\ f_event.httpMethod /= "OPTIONS"
    /\ ParamError(f_event) = None
    /\ ~ScanRejects(f_event)
    /\ LET items == Scan(table, limit(f_event)[1], params(f_event))
       IN  \E failing \in [1..Len(items) -> SUBSET {"annotated", "image"}] :
              /\ \A i \in 1..Len(items) : failing[i] \subseteq LinkCalls(items[i])
              /\ f_response' =
                    Some(SuccessEnvelope(
                            SortNewestFirst([i \in 1..Len(items) |->
                                                WithLinks(items[i], failing[i])])))
              /\ f_calls' = Append(f_calls, [op |-> "scan", returned |-> TRUE])
                              \o LinkLog(items, failing, 1)
    /\ f_pc' = "returned"
    /\ UNCHANGED <<f_event, fetcherRest>>

FetcherNext == FetcherOptions \/ FetcherFailure \/ FetcherSuccess

\* lines 207-220 of the Detector: an event as the table holds it
StoredEvent(videoName, frame, timestamp, s3ImageKey, presignedImageUrl) ==
    [video_frame_timestamp |-> videoName \o <<"_">> \o frame,
     timestamp |-> timestamp,
     videoName |-> videoName,
     frameNumber |-> 1,
     s3Bucket |-> BUCKET_out,
     s3Key |-> RESULTS_PATH \o videoName \o <<"/">> \o frame \o EXT_json,
     s3ImageKey |-> s3ImageKey,
     presignedImageUrl |-> presignedImageUrl,
     outliers |-> <<[class |-> L_tampering, confidence |-> "number", box |-> <<>>]>>,
     totalDetections |-> 1,
     outlierCount |-> 1]

VIDEO_other == <<"w",".","m","p","4">>
FRAME_KEY_f1 == FRAMES_PATH \o VIDEO_plain \o <<"/","f","1",".","j","p","g">>
FRAME_KEY_f2 == FRAMES_PATH \o VIDEO_plain \o <<"/","f","2",".","j","p","g">>
FRAME_KEY_other == FRAMES_PATH \o VIDEO_other \o <<"/","f","1",".","j","p","g">>

\* the latest timestamp of a stored event
MaxStamp == 3

\* events as the Detector leaves them, and events that also refer to an annotated
\* image
FetcherItems ==
    { StoredEvent(VIDEO_plain, <<"f","1">>, 1, FRAME_KEY_f1,
                  PresignedUrl("detector", BUCKET_out, FRAME_KEY_f1, DETECTOR_EXPIRES_IN)),
      StoredEvent(VIDEO_plain, <<"f","2">>, 2, FRAME_KEY_f2, TextUrl(ERROR_URL_TEXT)),
      StoredEvent(VIDEO_other, <<"f","1">>, MaxStamp, FRAME_KEY_other,
                  PresignedUrl("detector", BUCKET_out, FRAME_KEY_other, DETECTOR_EXPIRES_IN)),
      StoredEvent(VIDEO_plain, <<"f","3">>, MaxStamp, <<>>, TextUrl(URL_processed)),
      ("annotated_frame_s3_uri" :> S3Uri(ANNOTATED_BUCKET, KEY_annotated))
          @@ StoredEvent(VIDEO_other, <<"f","2">>, 1, FRAME_KEY_other,
                         PresignedUrl("detector", BUCKET_out, FRAME_KEY_other,
                                      DETECTOR_EXPIRES_IN)),
      ("annotated_frame_s3_uri" :> URI_nokey)
          @@ StoredEvent(VIDEO_plain, <<"f","4">>, 2, FRAME_KEY_f1,
                         PresignedUrl("detector", BUCKET_out, FRAME_KEY_f1,
                                      DETECTOR_EXPIRES_IN)) }

\* the most events the table holds
MaxItems == 2

\* tables whose items have distinct keys
FetcherTables ==
    {t \in SeqsUpTo(FetcherItems, MaxItems) :
        \A i, j \in 1..Len(t) : i /= j => ~SameKey(t[i], t[j])}

FetcherQueries ==
    { Query(l, v, a, b) :
        l \in {None, Some(<<"1">>), Some(<<"2">>), Some(<<"0">>), Some(<<"x">>)},
        v \in {None, Some(<<>>), Some(VIDEO_plain)},
        a \in {None, Some(<<>>), Some(<<"2">>), Some(<<"x">>)},
        b \in {None, Some(<<"2">>), Some(<<"x">>)} }

FetcherEvents ==
    {Request("OPTIONS", None), Request("GET", None)}
        \cup {Request("GET", Some(q)) : q \in FetcherQueries}

FetcherInit ==
    /\ f_event \in FetcherEvents
    /\ table \in FetcherTables
    /\ f_pc = "ready"
    /\ f_response = None
    /\ f_calls = <<>>

(***************************************************************************)
(* Specifications                                                          *)
(***************************************************************************)
\* the two extraction functions applied to one file name
FrameInit ==
    /\ fx_name \in FileNames
    /\ fx_caller = None
    /\ fx_detector = None
    /\ s3 = <<>>
    /\ CallerIdle
    /\ DetectorIdle
    /\ FetcherIdle

FrameNext == CallerExtract \/ DetectorExtract

SpecFrame == FrameInit /\ [][FrameNext]_vars

\* one invocation of the Inference Caller
SpecCallerInit == CallerInit /\ FrameIdle /\ DetectorIdle /\ FetcherIdle

SpecCaller == SpecCallerInit /\ [][CallerNext]_vars

\* one invocation of the Outlier Detector
SpecDetectorInit == DetectorInit /\ FrameIdle /\ CallerIdle /\ FetcherIdle

SpecDetector == SpecDetectorInit /\ [][DetectorNext]_vars

\* the most messages of the Caller's batch in the round trip
MaxRoundTrip == 1

\* the storage notifications of the objects the Caller has put, delivered to the
\* Detector as one batch
DetectorTrigger ==
    /\ c_pc \in {"returned", "raised"}
    /\ d_pc = "idle"
    /\ c_puts /= <<>>
    /\ d_records' = [k \in 1..Len(c_puts) |->
                        [bucket |-> Some(c_puts[k].bucket), key |-> Some(c_puts[k].key)]]
    /\ d_pc' = "loop"
    /\ UNCHANGED <<d_topic, d_now, d_i, d_processed_count, outlier_count, error_count,
                   d_result, table, d_calls, d_outcome, d_reads, s3, detectorRest>>

\* the Caller handles a batch, then the Detector is run on what it has written
SpecRoundTripInit ==
    CallerInvoked(MaxRoundTrip) /\ FrameIdle /\ DetectorIdle /\ FetcherIdle

RoundTripNext == CallerNext \/ DetectorTrigger \/ DetectorNext

SpecRoundTrip == SpecRoundTripInit /\ [][RoundTripNext]_vars

\* the most messages of the batch that is delivered twice
MaxRedelivered == 1

\* the batch is delivered again: the handler starts over on the same records,
\* the object store as the first delivery left it
CallerRedeliver ==
    /\ c_pc = "returned"
    /\ c_records /= <<>>
    /\ Len(c_stage) = Len(c_records)
    /\ c_pc' = "loop"
    /\ c_i' = 1
    /\ failed_messages' = <<>>
    /\ processed_count' = 0
    /\ c_result' = None
    /\ UNCHANGED <<c_env, c_records, c_puts, c_stage, c_seen, s3, callerRest>>

SpecRedeliveryInit ==
    CallerInvoked(MaxRedelivered) /\ FrameIdle /\ DetectorIdle /\ FetcherIdle

RedeliveryNext == CallerNext \/ CallerRedeliver

SpecRedelivery == SpecRedeliveryInit /\ [][RedeliveryNext]_vars

\* one request to the Outlier Fetcher, on a table of events
SpecFetcherInit ==
    FetcherInit /\ s3 = <<>> /\ FrameIdle /\ CallerIdle /\ DetectorQuiet

SpecFetcher == SpecFetcherInit /\ [][FetcherNext]_vars

(***************************************************************************)
(* Claims                                                                  *)
(***************************************************************************)
RECURSIVE Pow10(_)
Pow10(n) == IF n = 0 THEN 1 ELSE 10 * Pow10(n - 1)

RECURSIVE DecimalValue(_, _, _)
\* the number written by the digits s[i..j], most significant first
DecimalValue(s, i, j) ==
    IF i > j THEN 0 ELSE DigitVal[s[i]] * Pow10(j - i) + DecimalValue(s, i + 1, j)

HasDigit(s) == \E i \in 1..Len(s) : IsDigit(s[i])

\* whether s[i..j] is a maximal run of digits
IsDigitRun(s, i, j) ==
    /\ 1 <= i /\ i <= j /\ j <= Len(s)
    /\ \A k \in i..j : IsDigit(s[k])
    /\ (i = 1 \/ ~IsDigit(s[i - 1]))
    /\ (j = Len(s) \/ ~IsDigit(s[j + 1]))

\* the integer formed by the first contiguous run of digits of s
FirstDigitRunValue(s) ==
    LET i == CHOOSE a \in 1..Len(s) :
                /\ \E b \in a..Len(s) : IsDigitRun(s, a, b)
                /\ \A c \in 1..(a - 1) : ~IsDigit(s[c])
        j == CHOOSE b \in i..Len(s) : IsDigitRun(s, i, b)
    IN  DecimalValue(s, i, j)

\* the places where a digit directly follows "frame" (any case) and at most one
\* of "_" and "-"
FrameTokenDigits(s) ==
    { d \in 1..Len(s) :
        /\ IsDigit(s[d])
        /\ \/ OccursAt(Lower(s), <<"f","r","a","m","e">>, d - 5)
           \/ OccursAt(Lower(s), <<"f","r","a","m","e","_">>, d - 6)
           \/ OccursAt(Lower(s), <<"f","r","a","m","e","-">>, d - 6) }

CallerExtractionRight ==
    fx_caller /= None =>
        fx_caller[1] = (IF HasDigit(fx_name) THEN FirstDigitRunValue(fx_name) ELSE 0)

\* C8 as stated: Frame-number extraction, in both the Caller and the Detector:
\* for every filename containing at least one digit the result is the integer
\* formed by the first contiguous run of digits; for every filename with no
\* digit the Caller returns 0 and the Detector returns None.
C8_Original ==
    /\ CallerExtractionRight
    /\ fx_detector /= None =>
         fx_detector[1] = (IF HasDigit(fx_name)
                           THEN Some(FirstDigitRunValue(fx_name))
                           ELSE None)

\* C8 as amended: the Caller returns the integer formed by the first contiguous
\* run of digits, or 0 when the filename has no digit.  The Detector returns the
\* integer formed by the digit run that directly follows the first "frame" (any
\* case, optionally followed by one "_" or "-") that has a digit there, and None
\* for every filename with no such place, in particular for one with no digit.
C8_FrameExtraction ==
    /\ CallerExtractionRight
    /\ fx_detector /= None =>
         fx_detector[1] =
            (IF FrameTokenDigits(fx_name) = {} THEN None
             ELSE LET d == Min(FrameTokenDigits(fx_name))
                      j == CHOOSE b \in d..Len(fx_name) :
                              /\ \A k \in d..b : IsDigit(fx_name[k])
                              /\ (b = Len(fx_name) \/ ~IsDigit(fx_name[b + 1]))
                  IN  Some(DecimalValue(fx_name, d, j)))
    /\ (fx_detector /= None /\ ~HasDigit(fx_name)) => fx_detector[1] = None

\* C8 witness: "f1.jpg" has a digit and no "frame": the Caller returned 1, the
\* Detector None.
C8_Witness ==
    /\ fx_name = <<"f","1",".","j","p","g">>
    /\ fx_caller = Some(1)
    /\ fx_detector = Some(None)

(***************************************************************************)
(* Inference Caller                                                        *)
(***************************************************************************)
\* whether a put_object of the result record returned for record i
ResultWritten(i) ==
    \E k \in 1..Len(c_puts) : c_puts[k].msg = i /\ c_puts[k].object.kind = "json"

\* the body cannot be parsed, or carries no s3_uri
InputFault(record) ==
    \/ record.body = None
    \/ record.body[1].kind /= "object"
    \/ record.body[1].s3_uri = None

ReturnedFailures ==
    IF "batchItemFailures" \in DOMAIN c_result[1] THEN c_result[1].batchItemFailures
    ELSE <<>>

TimesReported(i) ==
    Cardinality({k \in 1..Len(ReturnedFailures) : ReturnedFailures[k].itemIdentifier = i})

\* C1: with the required configuration present, the returned batchItemFailures
\* holds a message's identifier if and only if handling that message failed; a
\* message whose result record was written is absent, a failed one appears
\* exactly once, and processed count + failed entries = messages in the batch.
C1_FailureList ==
    c_pc = "returned" =>
        /\ \A i \in 1..Len(c_records) :
             /\ TimesReported(i) = (IF c_stage[i] = "none" THEN 0 ELSE 1)
             /\ InputFault(c_records[i]) => TimesReported(i) = 1
             /\ ResultWritten(i) => TimesReported(i) = 0
        /\ \A k \in 1..Len(ReturnedFailures) :
             ReturnedFailures[k].itemIdentifier \in 1..Len(c_records)
        /\ processed_count + Len(ReturnedFailures) = Len(c_records)

\* C1 witness: a batch of two returned with the first message failed at an
\* external call and the second processed.
C1_Witness ==
    /\ c_pc = "returned"
    /\ c_stage = <<"invoke_endpoint", "none">>
    /\ c_result = Some([batchItemFailures |-> <<[itemIdentifier |-> 1]>>])
    /\ processed_count = 1

\* C2 as stated: with the required configuration present, neither batch handler
\* ever raises, whatever fields the records of the batch lack.
C2_NeverRaises == (c_env => c_pc /= "raised") /\ d_pc /= "raised"

(***************************************************************************)
(* Outlier Detector                                                        *)
(***************************************************************************)
\* the classes the model's OUTLIER_CLASSES value configures
ConfiguredClasses == {L_tampering, L_no_helmet}

HandledByDetector == 1..Len(d_outcome)

\* what is stored under the key of record i (its members are present)
StoredFor(i) == s3[<<d_records[i].bucket[1], UnquotePlus(d_records[i].key[1])>>]

HasStoredDoc(i) ==
    /\ d_records[i].bucket /= None /\ d_records[i].key /= None
    /\ <<d_records[i].bucket[1], UnquotePlus(d_records[i].key[1])>> \in DOMAIN s3
    /\ StoredFor(i).kind = "json"

\* at least one detection's lowercased label is a member of the class set
HasOutlierLabel(i) ==
    /\ StoredFor(i).detections /= None
    /\ StoredFor(i).detections[1].list
    /\ \E k \in 1..Len(StoredFor(i).detections[1].items) :
         LET label == StoredFor(i).detections[1].items[k].label
         IN  label /= None /\ Lower(label[1]) \in ConfiguredClasses

\* a put_item of an event returned for record i
EventWritten(i) ==
    \E k \in 1..Len(d_calls) :
        d_calls[k].op = "put_item" /\ d_calls[k].rec = i /\ d_calls[k].returned

\* C3 as stated: for every result record under the results path, an outlier
\* event is written if and only if at least one detection's lowercased label is
\* an exact member of the configured class set.
C3_Original ==
    \A i \in HandledByDetector :
        (d_outcome[i] /= "skipped" /\ HasStoredDoc(i)) =>
            (EventWritten(i) <=> HasOutlierLabel(i))

\* C3 as amended: for every result record under the results path that the
\* Detector handles without an error (it is counted as processed), an outlier
\* event is written if and only if at least one detection's lowercased label is
\* an exact member of the configured class set; and for every record, whatever
\* its outcome, an event is written only if such a label exists, so an empty
\* detection list or labels all outside the set never produce an event.
C3_OutlierIff ==
    \A i \in HandledByDetector :
        /\ d_outcome[i] \in {"clean", "outlier"} =>
             (HasStoredDoc(i) /\ (EventWritten(i) <=> HasOutlierLabel(i)))
        /\ EventWritten(i) => (HasStoredDoc(i) /\ HasOutlierLabel(i))

\* C3 witness: a record whose only matching label is "Tampering" produced an
\* event, after a record whose object could not be read produced none.
C3_Witness ==
    /\ Len(d_outcome) = 2
    /\ d_outcome = <<"get_object", "outlier">>
    /\ EventWritten(2)
    /\ \E k \in 1..Len(StoredFor(2).detections[1].items) :
         StoredFor(2).detections[1].items[k].label = Some(L_Tampering)
    /\ \A k \in 1..Len(StoredFor(2).detections[1].items) :
         StoredFor(2).detections[1].items[k].label /= Some(L_tampering)

CountOutcomes(S) == Cardinality({i \in HandledByDetector : d_outcome[i] \in S})

\* C4: when publishing the notification fails for a record, the event already
\* written stays in the table, the record counts as processed and as an outlier,
\* the error count is not incremented, and the loop goes on to the next records.
C4_PublishFailureSwallowed ==
    /\ \A k \in 1..Len(d_calls) :
         (d_calls[k].op = "publish" /\ ~d_calls[k].returned) =>
            /\ k > 1
            /\ d_calls[k - 1].op = "put_item"
            /\ d_calls[k - 1].rec = d_calls[k].rec
            /\ d_calls[k - 1].returned
            /\ \E t \in 1..Len(table) : SameKey(table[t], d_calls[k - 1].item)
            /\ d_outcome[d_calls[k].rec] = "outlier"
            /\ d_i > d_calls[k].rec
    /\ d_processed_count = CountOutcomes({"clean", "outlier"})
    /\ outlier_count = CountOutcomes({"outlier"})
    /\ error_count = Len(d_outcome) - CountOutcomes({"clean", "outlier", "skipped"})
    /\ d_pc = "returned" =>
         /\ Len(d_outcome) = Len(d_records)
         /\ d_result = Some([statusCode |-> 200, processed |-> d_processed_count,
                             outliersFound |-> outlier_count, errors |-> error_count])

\* C4 witness: publish failed for the first record of two, the second was then
\* processed, and the handler returned two processed, no error.
C4_Witness ==
    /\ d_pc = "returned"
    /\ Len(d_calls) >= 2
    /\ d_calls[2].op = "publish" /\ d_calls[2].rec = 1 /\ ~d_calls[2].returned
    /\ d_outcome = <<"outlier", "clean">>
    /\ d_result[1].processed = 2 /\ d_result[1].outliersFound = 1
    /\ d_result[1].errors = 0

\* the link a fresh generate_presigned_url call makes for the original frame of
\* record i: the key with the results path and ".json" exchanged, 24 hours
IsFreshFrameLink(url, i) ==
    LET key == UnquotePlus(d_records[i].key[1])
    IN  /\ url.kind = "presigned"
        /\ url.signer = "detector"
        /\ url.bucket = d_records[i].bucket[1]
        /\ url.key = FRAMES_PATH
                       \o SubSeq(key, Len(RESULTS_PATH) + 1, Len(key) - Len(EXT_json))
                       \o EXT_jpg
        /\ url.expires_in = 24 * 60 * 60

\* the processed_frame_url of the source record of record i, present and not
\* the placeholder
IsProcessedFrameUrl(url, i) ==
    /\ StoredFor(i).processed_frame_url /= None
    /\ StoredFor(i).processed_frame_url[1] /= None
    /\ StoredFor(i).processed_frame_url[1][1] /= PLACEHOLDER_URL
    /\ url = TextUrl(StoredFor(i).processed_frame_url[1][1])

SavedEvents == {k \in 1..Len(d_calls) : d_calls[k].op = "put_item" /\ d_calls[k].returned}

ParsingFailed == ParamError(f_event) /= None

ScanFailed == \E k \in 1..Len(f_calls) : f_calls[k].op = "scan" /\ ~f_calls[k].returned

LinkGenerationFailed ==
    \E k \in 1..Len(f_calls) :
        f_calls[k].op = "generate_presigned_url" /\ ~f_calls[k].returned

CarriesHeaders(response) ==
    /\ response.headers.ContentType = "application/json"
    /\ response.headers.AccessControlAllowOrigin = "*"
    /\ response.headers.AccessControlAllowMethods = "GET,OPTIONS"
    /\ "AccessControlAllowHeaders" \in DOMAIN response.headers

IsFailureEnvelope(response) ==
    /\ response.statusCode = 500
    /\ DOMAIN response.body = {"success", "error"}
    /\ response.body.success = FALSE

IsSuccessEnvelope(response) ==
    /\ response.statusCode = 200
    /\ DOMAIN response.body = {"success", "count", "events"}
    /\ response.body.success = TRUE
    /\ response.body.count = Len(response.body.events)

\* C5 as stated: every request gets a response envelope; a failure in parameter
\* parsing, in the scan or in link generation yields 500 {success:false, error},
\* a success yields 200 {success:true, count, events} with count the number of
\* events, and every response, OPTIONS included, carries the headers.
C5_Original ==
    f_pc = "returned" =>
        /\ f_response /= None
        /\ CarriesHeaders(f_response[1])
        /\ f_event.httpMethod /= "OPTIONS" =>
             IF ParsingFailed \/ ScanFailed \/ LinkGenerationFailed
             THEN IsFailureEnvelope(f_response[1])
             ELSE IsSuccessEnvelope(f_response[1])

\* C5 as amended: every request gets a response envelope and the handler never
\* raises; a failure in parameter parsing (a non-numeric limit, startDate or
\* endDate) or in the table scan yields 500 {success:false, error}; every other
\* request, also one for which generating a link failed, yields 200
\* {success:true, count, events} with count the number of events; every
\* response, OPTIONS included, carries the Content-Type and CORS headers.
C5_Envelope ==
    f_pc = "returned" =>
        /\ f_response /= None
        /\ CarriesHeaders(f_response[1])
        /\ f_event.httpMethod = "OPTIONS" => f_response[1].statusCode = 200
        /\ f_event.httpMethod /= "OPTIONS" =>
             IF ParsingFailed \/ ScanFailed
             THEN IsFailureEnvelope(f_response[1])
             ELSE IsSuccessEnvelope(f_response[1])

\* C5 witness: a request whose limit cut the scan returned 200 with one event
\* although generating its link failed.
C5_Witness ==
    /\ f_pc = "returned"
    /\ LinkGenerationFailed
    /\ Len(table) = 2
    /\ f_response[1].statusCode = 200
    /\ f_response[1].body.count = 1

\* a filter is given when the query carries a non-empty value for it
Given(parameter) == parameter /= None /\ parameter[1] /= <<>>

RequestedLimit ==
    IF params(f_event).limit = None THEN 50 ELSE PyInt(params(f_event).limit[1])[1]

\* C6: a successful response holds at most limit events, every event satisfies
\* every given filter (videoName equal, startDate <= timestamp <= endDate,
\* inclusive), and the events are ordered by timestamp, descending.
C6_FilteredSorted ==
    (f_pc = "returned" /\ f_event.httpMethod /= "OPTIONS"
        /\ f_response[1].statusCode = 200) =>
        LET events == f_response[1].body.events
            query == params(f_event)
        IN  /\ Len(events) <= RequestedLimit
            /\ \A i \in 1..Len(events) :
                 /\ \E t \in 1..Len(table) : SameKey(table[t], events[i])
                 /\ Given(query.videoName) => events[i].videoName = query.videoName[1]
                 /\ Given(query.startDate) =>
                      PyInt(query.startDate[1])[1] <= events[i].timestamp
                 /\ Given(query.endDate) =>
                      events[i].timestamp <= PyInt(query.endDate[1])[1]
            /\ \A i, j \in 1..Len(events) :
                 i < j => events[i].timestamp >= events[j].timestamp

\* C6 witness: a query with a limit and a videoName returned both events of the
\* table, the later one first, the table holding them in the other order.
C6_Witness ==
    /\ f_pc = "returned"
    /\ f_event.queryStringParameters /= None
    /\ params(f_event).limit = Some(<<"2">>)
    /\ params(f_event).videoName = Some(VIDEO_plain)
    /\ Len(table) = 2
    /\ table[1].timestamp < table[2].timestamp
    /\ f_response[1].statusCode = 200
    /\ Len(f_response[1].body.events) = 2
    /\ f_response[1].body.events[1].timestamp > f_response[1].body.events[2].timestamp

\* C7 as stated: in every successful response, every returned event that has a
\* bucket and an image key carries in presignedImageUrl a link generated during
\* this request, never the value the Detector stored, also when generating the
\* link fails for that item.
C7_Original ==
    (f_pc = "returned" /\ f_event.httpMethod /= "OPTIONS"
        /\ f_response[1].statusCode = 200) =>
        \A i \in 1..Len(f_response[1].body.events) :
            LET event == f_response[1].body.events[i]
            IN  (Given(Get(event, "s3Bucket")) /\ Given(Get(event, "s3ImageKey"))) =>
                    /\ "presignedImageUrl" \in DOMAIN event
                    /\ event.presignedImageUrl.kind = "presigned"
                    /\ event.presignedImageUrl.signer = "fetcher"

(***************************************************************************)
(* Caller-to-Detector round trip                                           *)
(***************************************************************************)
\* record i of the Detector's batch names a result record the Caller wrote,
\* still in the store
ReadsCallerResult(i) ==
    /\ HasStoredDoc(i)
    /\ \E k \in 1..Len(c_puts) :
         /\ c_puts[k].bucket = d_records[i].bucket[1]
         /\ c_puts[k].key = UnquotePlus(d_records[i].key[1])
         /\ c_puts[k].object = StoredFor(i)

\* the frame_number the Caller computed and wrote into the record
CallerFrameNumber(i) == StoredFor(i).frame_number[1][1]

\* C9: when the Detector reads a result record written by the Caller, the
\* frameNumber it uses and stores in any outlier event equals the frame_number
\* the Caller computed (the JSON field, not the number parsed from the key's
\* file name), and the record is never rejected for an undeterminable frame
\* number.
C9_RoundTrip ==
    \A i \in HandledByDetector :
        ReadsCallerResult(i) =>
            /\ d_outcome[i] /= "frame_number"
            /\ \A k \in 1..Len(d_calls) :
                 (d_calls[k].op = "put_item" /\ d_calls[k].rec = i) =>
                     d_calls[k].item.frameNumber = CallerFrameNumber(i)
            /\ \E k \in 1..Len(c_puts) :
                 /\ c_puts[k].object = StoredFor(i)
                 /\ LET name == frame_file(c_records[c_puts[k].msg].body[1])
                    IN  CallerFrameNumber(i)
                          = (IF HasDigit(name) THEN FirstDigitRunValue(name) ELSE 0)

\* C9 witness: the Detector stored an event with frameNumber 1 for the record of
\* frame "f1.jpg", whose key's file name "f1.json" has no number after "frame".
C9_Witness ==
    /\ d_pc = "returned"
    /\ \E t \in 1..Len(table) :
         /\ table[t].s3Key = KEY_f1
         /\ table[t].frameNumber = 1
    /\ Detector_extract_frame_number(<<"f","1",".","j","s","o","n">>) = None

(***************************************************************************)
(* Outlier Detector: writes and notifications                              *)
(***************************************************************************)
\* the number of detections of the stored record whose lowercased label is a
\* configured class
MatchedCount(i) ==
    IF StoredFor(i).detections = None \/ ~StoredFor(i).detections[1].list THEN 0
    ELSE Cardinality({k \in 1..Len(StoredFor(i).detections[1].items) :
            LET label == StoredFor(i).detections[1].items[k].label
            IN  label /= None /\ Lower(label[1]) \in ConfiguredClasses})

WritesFor(i) == {k \in 1..Len(d_calls) : d_calls[k].op = "put_item" /\ d_calls[k].rec = i}

PublishesFor(i) == {k \in 1..Len(d_calls) : d_calls[k].op = "publish" /\ d_calls[k].rec = i}

\* the record got as far as matching its detections
ReachedMatching(i) == d_outcome[i] \in {"confidence", "clean", "put_item", "outlier"}

\* one publish call, made directly after the write, with the severity of k
OnePublishAfterWrite(i) ==
    /\ Cardinality(PublishesFor(i)) = 1
    /\ \A w \in WritesFor(i) : \A p \in PublishesFor(i) :
         /\ p = w + 1
         /\ d_calls[p].severity = (IF MatchedCount(i) > 2 THEN "high" ELSE "medium")

WithJsonExtension(name) ==
    LET dots == {i \in 1..Len(name) : name[i] = "."}
    IN  IF dots = {} THEN name \o <<".","j","s","o","n">>
        ELSE SubSeq(name, 1, CHOOSE i \in dots : \A j \in dots : j <= i)
                \o <<"j","s","o","n">>

\* the put_object calls of result records that returned
ResultPuts == {k \in 1..Len(c_puts) : c_puts[k].object.kind = "json"}

\* the key passes lines 87-93 of the Detector
AcceptedByDetector(key) ==
    /\ StartsWith(key, <<"i","n","f","e","r","e","n","c","e","-","r","e","s","u","l","t","s","/">>)
    /\ EndsWith(key, <<".","j","s","o","n">>)

\* C12 as stated: for every processed message and every frame file name, the
\* result record is written under <output prefix>/<base name of the video>/
\* <frame file name with its extension replaced by .json>; the key ends in
\* .json and passes the Detector's results-path and suffix filter.
C12_Original ==
    \A k \in ResultPuts :
        LET body == c_records[c_puts[k].msg].body[1]
        IN  /\ c_puts[k].key =
                 OUTPUT_PREFIX \o <<"/">> \o Basename(original_video_key(body))
                    \o <<"/">> \o WithJsonExtension(frame_file(body))
            /\ AcceptedByDetector(c_puts[k].key)

(***************************************************************************)
(* Inference Caller: a batch delivered twice                               *)
(***************************************************************************)
\* the ordinal of record i in the second delivery of the batch
Redelivered(i) == Len(c_records) + i

\* bucket, key and contents of the put_object calls made while handling number m
WrittenBy(m) ==
    LET puts == SelectSeq(c_puts, LAMBDA p : p.msg = m)
    IN  [k \in 1..Len(puts) |->
            [bucket |-> puts[k].bucket, key |-> puts[k].key, object |-> puts[k].object]]

\* record i was processed in both deliveries, the endpoint answering the same
\* and draw_boxes returning the same for the same stored frame
SameTwice(i) ==
    /\ Redelivered(i) <= Len(c_stage)
    /\ c_stage[i] = "none" /\ c_stage[Redelivered(i)] = "none"
    /\ c_seen[i] = c_seen[Redelivered(i)]

FirstDeliveryPuts == SelectSeq(c_puts, LAMBDA p : p.msg <= Len(c_records))

AnnotatedWritten(i) ==
    \E k \in 1..Len(c_puts) : c_puts[k].msg = i /\ c_puts[k].object.kind = "image"

\* put_object call k stored the annotated image of the message of call k + 1
AnnotatedPutBefore(k) ==
    /\ k >= 1
    /\ c_puts[k].msg = c_puts[k + 1].msg
    /\ c_puts[k].object.kind = "image"
    /\ c_puts[k].bucket = ANNOTATED_BUCKET
    /\ c_puts[k].key = annotated_key(c_records[c_puts[k].msg].body[1])
    /\ c_puts[k + 1].object.annotated_frame_s3_uri
         = Some(Some(S3Uri(c_puts[k].bucket, c_puts[k].key)))

\* C15: within one message the annotated image is written before the result
\* record, and the write of the result record is the last step that can fail:
\* a message whose handling failed, and so every message returned in
\* batchItemFailures, has written no result record in this invocation (its
\* annotated image may have been written), and every result record written
\* directly follows the successful write of its annotated image.
C15_WriteOrder ==
    /\ \A k \in ResultPuts : AnnotatedPutBefore(k - 1)
    /\ \A i \in 1..Len(c_stage) :
         /\ ResultWritten(i) <=> c_stage[i] = "none"
         /\ AnnotatedWritten(i) <=> c_stage[i] \in {"put_result", "none"}
    /\ c_pc = "returned" =>
         \A k \in 1..Len(ReturnedFailures) :
            ~ResultWritten(ReturnedFailures[k].itemIdentifier)

\* C15 witness: of a returned batch of two, the first message failed at the
\* write of its result record after its annotated image was stored and is the
\* one reported; the second wrote its annotated image and then its result.
C15_Witness ==
    /\ c_pc = "returned"
    /\ Len(c_stage) = 2
    /\ c_stage[1] = "put_result" /\ AnnotatedWritten(1) /\ ~ResultWritten(1)
    /\ ReturnedFailures = <<[itemIdentifier |-> 1]>>
    /\ c_stage[2] = "none"
    /\ Len(c_puts) = 3 /\ c_puts[3].object.kind = "json" /\ AnnotatedPutBefore(2)

(***************************************************************************)
(* Outlier Detector: outcomes of the records of a batch                    *)
(***************************************************************************)
\* the record names a key outside the results path or without ".json"
KeyFilteredOut(i) ==
    /\ d_records[i].bucket /= None /\ d_records[i].key /= None
    /\ ~AcceptedByDetector(UnquotePlus(d_records[i].key[1]))

\* neither the stored JSON nor the file name of the key gives a frame number
FrameNumberUndeterminable(i) ==
    /\ HasStoredDoc(i)
    /\ ~KeyFilteredOut(i)
    /\ StoredFor(i).frame_number \in {None, Some(None)}
    /\ LET parts == Split(UnquotePlus(d_records[i].key[1]), "/")
       IN  FrameTokenDigits(parts[Len(parts)]) = {}

IsProcessed(i) == d_outcome[i] \in {"clean", "outlier"}
IsSkipped(i) == d_outcome[i] = "skipped"
IsError(i) == ~IsProcessed(i) /\ ~IsSkipped(i)

\* C13: every record of a batch ends as skipped (key outside the results path or
\* without .json: no storage read, no table write, no counter changed), as
\* processed, or as an error (also when no frame number can be determined);
\* at return processed + errors + skipped = number of records and
\* outliersFound <= processed; an error never keeps later records from being
\* handled.
C13_Outcomes ==
    /\ \A i \in HandledByDetector :
         /\ IsSkipped(i) <=> KeyFilteredOut(i)
         /\ IsSkipped(i) =>
              /\ \A r \in 1..Len(d_reads) : d_reads[r] /= i
              /\ WritesFor(i) = {} /\ PublishesFor(i) = {}
         /\ FrameNumberUndeterminable(i) => IsError(i)
    /\ Len(d_outcome) = d_i - 1
    /\ d_processed_count = Cardinality({i \in HandledByDetector : IsProcessed(i)})
    /\ error_count = Cardinality({i \in HandledByDetector : IsError(i)})
    /\ outlier_count <= d_processed_count
    /\ d_pc = "returned" =>
         /\ Len(d_outcome) = Len(d_records)
         /\ d_result[1].processed + d_result[1].errors
              + Cardinality({i \in HandledByDetector : IsSkipped(i)}) = Len(d_records)
         /\ d_result[1].outliersFound <= d_result[1].processed

\* C13 witness: the first record had no determinable frame number and counted as
\* an error, the second was then processed as an outlier, and the handler
\* returned one processed, one error.
C13_Witness ==
    /\ d_pc = "returned"
    /\ Len(d_outcome) = 2
    /\ FrameNumberUndeterminable(1) /\ d_outcome[1] = "frame_number"
    /\ d_outcome[2] = "outlier"
    /\ d_result[1].processed = 1 /\ d_result[1].errors = 1
    /\ d_result[1].outliersFound = 1

====
